---- MODULE Spec2Model ----
(***************************************************************************)
(* Model of the numeric utilities of DL-MSTd-Acc-SelfMotion:               *)
(*   src/acc.py                 circular error metrics (numpy arrays)      *)
(*   src/losses.py              CircularLoss and MSE loss                  *)
(*   src/weight_initializers.py GlorotUniformNonNegative                   *)
(*                                                                         *)
(* numpy arrays are objects: the metrics work on references into a heap,   *)
(* so that a copy (ndarray.copy), a fresh result (a - b) and an in-place   *)
(* masked assignment (a[mask] = ...) are different things in the model as  *)
(* they are in the code.  An array is a sequence of N rows, each a         *)
(* sequence of F numbers; a 1-D array of N numbers is the case F = 1.      *)
(* Angles are integers (whole degrees).  A mean is an exact fraction.      *)
(***************************************************************************)
EXTENDS Integers, Sequences, FiniteSets, TLC

VARIABLES heap, y_pred, y_true, call, ret, self_seed

vars == <<heap, y_pred, y_true, call, ret, self_seed>>

----------------------------------------------------------------------------
(* Bounds of the model *)

\* largest batch size N of an array of the metrics
MaxN == 2
\* largest number of feature columns F of an array of the metrics
MaxF == 2
\* largest number of elements N * F of an array of the metrics
MaxElems == 4
\* the prediction of a single-element array lies in -MaxPred .. MaxPred
MaxPred == 1200

(* Program constants *)

\* the 180 of the range tests and of the reflection, src/acc.py
HalfTurn == 180
\* the 360 of the wrap-around, src/acc.py
FullTurn == 360

----------------------------------------------------------------------------
(* Arithmetic helpers *)

Abs(x) == IF x < 0 THEN -x ELSE x

RECURSIVE GCD(_, _)
GCD(a, b) == IF b = 0 THEN a ELSE GCD(b, a % b)

\* the exact value n / d (d > 0) in lowest terms: what a floating-point
\* division approximates
Frac(n, d) ==
    LET g == GCD(Abs(n), d)
    IN  [num |-> n \div g, den |-> d \div g]

FracLeq(a, b) == a.num * b.den <= b.num * a.den

RECURSIVE SumSeq(_)
SumSeq(s) == IF s = << >> THEN 0 ELSE Head(s) + SumSeq(Tail(s))

----------------------------------------------------------------------------
(* numpy element-wise operations on arrays (values, not references) *)

NRows(a) == Len(a)
NCols(a) == Len(a[1])

\* a - b of two equal-shape arrays: a new array
ArrSub(a, b) == [i \in 1..NRows(a) |-> [j \in 1..NCols(a) |-> a[i][j] - b[i][j]]]

\* a ** 2
ArrSquare(a) == [i \in 1..NRows(a) |-> [j \in 1..NCols(a) |-> a[i][j] * a[i][j]]]

\* np.abs(a)
ArrAbs(a) == [i \in 1..NRows(a) |-> [j \in 1..NCols(a) |-> Abs(a[i][j])]]

\* the mutant of MeanAxis0 that reduces along the last axis (axis=1): one
\* mean per row
MeanAxis1(a) ==
    [i \in 1..NRows(a) |-> Frac(SumSeq(a[i]), NCols(a))]

\* np.mean(a, axis=0): one mean per feature column, taken over the rows
MeanAxis0(a) ==
    [j \in 1..NCols(a) |-> Frac(SumSeq([i \in 1..NRows(a) |-> a[i][j]]), NRows(a))]

----------------------------------------------------------------------------
(* src/acc.py *)

\* y_pred_reflect[y_pred_reflect > 180] = 180 + (180 - y_pred_reflect[y_pred_reflect > 180])
ReflectAbove(a) ==
    [i \in 1..NRows(a) |-> [j \in 1..NCols(a) |->
        IF a[i][j] > HalfTurn THEN HalfTurn + (HalfTurn - a[i][j]) ELSE a[i][j]]]

\* y_pred_reflect[y_pred_reflect < -180] = -180 + (-180 - y_pred_reflect[y_pred_reflect < -180])
ReflectBelow(a) ==
    [i \in 1..NRows(a) |-> [j \in 1..NCols(a) |->
        IF a[i][j] < -HalfTurn THEN -HalfTurn + (-HalfTurn - a[i][j]) ELSE a[i][j]]]

\* the mutant of _bring_preds_within_range that forgets the copy and
\* reflects the caller's array itself
BringNoCopy(h, y_preds) ==
    LET h1 == [h EXCEPT ![y_preds] = ReflectAbove(@)]
        h2 == [h1 EXCEPT ![y_preds] = ReflectBelow(@)]
    IN  [heap |-> h2, ref |-> y_preds]

\* the mutant of _bring_preds_within_range that tests both masks on the
\* values as they came in (an if / elif per element)
BringElif(h, y_preds) ==
    LET a  == h[y_preds]
        b  == [i \in 1..NRows(a) |-> [j \in 1..NCols(a) |->
                 IF a[i][j] > HalfTurn THEN FullTurn - a[i][j]
                 ELSE IF a[i][j] < -HalfTurn THEN -FullTurn - a[i][j]
                 ELSE a[i][j]]]
    IN  [heap |-> Append(h, b), ref |-> Len(h) + 1]

\* _bring_preds_within_range(y_preds): a copy, then the two masked
\* assignments one after the other on the copy
_bring_preds_within_range(h, y_preds) ==
    LET h1 == Append(h, h[y_preds])
        r  == Len(h1)
        h2 == [h1 EXCEPT ![r] = ReflectAbove(@)]
        h3 == [h2 EXCEPT ![r] = ReflectBelow(@)]
    IN  [heap |-> h3, ref |-> r]

\* the mutant of WrapAbove that adds the full turn instead (360 + diff)
WrapAbovePlus(a) ==
    [i \in 1..NRows(a) |-> [j \in 1..NCols(a) |->
        IF a[i][j] > HalfTurn THEN FullTurn + a[i][j] ELSE a[i][j]]]

\* diff[diff > 180] = 360 - diff[diff > 180]
WrapAbove(a) ==
    [i \in 1..NRows(a) |-> [j \in 1..NCols(a) |->
        IF a[i][j] > HalfTurn THEN FullTurn - a[i][j] ELSE a[i][j]]]

\* diff[diff < -180] = -360 - diff[diff < -180]
WrapBelow(a) ==
    [i \in 1..NRows(a) |-> [j \in 1..NCols(a) |->
        IF a[i][j] < -HalfTurn THEN -FullTurn - a[i][j] ELSE a[i][j]]]

\* the mutant of _circ_error_diff whose second mask lost its minus sign
\* (diff < 180)
CircErrorDiffLostSign(h, diff) ==
    LET h1 == [h EXCEPT ![diff] = WrapAbove(@)]
        h2 == [h1 EXCEPT ![diff] =
                 [i \in 1..NRows(@) |-> [j \in 1..NCols(@) |->
                    IF @[i][j] < HalfTurn THEN -FullTurn - @[i][j] ELSE @[i][j]]]]
    IN  [heap |-> h2, ref |-> diff]

\* _circ_error_diff(diff): the two masked assignments, in place, on the
\* array it is given; returns that same array
_circ_error_diff(h, diff) ==
    LET h1 == [h EXCEPT ![diff] = WrapAbove(@)]
        h2 == [h1 EXCEPT ![diff] = WrapBelow(@)]
    IN  [heap |-> h2, ref |-> diff]

\* circ_error(y_pred, y_true)
circ_error(h, yp, yt) ==
    LET b  == _bring_preds_within_range(h, yp)
        h1 == Append(b.heap, ArrSub(b.heap[b.ref], b.heap[yt]))
        d  == Len(h1)
    IN  _circ_error_diff(h1, d)

\* the difference array of mse and mae: y_pred - y_true, or circ_error
Diff(h, yp, yt, circ_correction) ==
    IF ~circ_correction
    THEN [heap |-> Append(h, ArrSub(h[yp], h[yt])), ref |-> Len(h) + 1]
    ELSE circ_error(h, yp, yt)

\* mse(y_pred, y_true, circ_correction)
mse(h, yp, yt, circ_correction) ==
    LET d == Diff(h, yp, yt, circ_correction)
    IN  [heap |-> d.heap, val |-> MeanAxis0(ArrSquare(d.heap[d.ref]))]

\* mae(y_pred, y_true, circ_correction)
mae(h, yp, yt, circ_correction) ==
    LET d == Diff(h, yp, yt, circ_correction)
    IN  [heap |-> d.heap, val |-> MeanAxis0(ArrAbs(d.heap[d.ref]))]

----------------------------------------------------------------------------
(* The caller of the metrics: two arrays it owns, and calls on them *)

\* what the caller still holds of the heap after a call returns: its own
\* two arrays (the callee's temporaries are dropped, a returned array is
\* kept by value in ret)
Live(h) == SubSeq(h, 1, 2)

\* seed=None; a given seed n is the one-element sequence <<n>>
NoSeed == << >>

Shapes == {s \in (1..MaxN) \X (1..MaxF) : s[1] * s[2] <= MaxElems}

Arrays(s, vals) == [1..s[1] -> [1..s[2] -> vals]]

\* angles of the caller's arrays: predictions in and out of [-180, 180],
\* true angles in range
PredVals == {-190, 1, 3, 170}
TrueVals == {-170, 0}

\* true angles of the single-element arrays: the two ends and the middle
\* of the range, so that the differences cover all of -360 .. 360
EdgeTrueVals == {-HalfTurn, 0, HalfTurn}

InitCommon ==
    /\ y_pred = 1
    /\ y_true = 2
    /\ call = [fn |-> "none"]
    /\ ret = "none"
    /\ self_seed = NoSeed

\* the caller's arrays: every shape within the bounds over PredVals and
\* TrueVals, or a single element with any prediction of -MaxPred .. MaxPred
Init ==
    /\ \/ \E s \in Shapes : \E p \in Arrays(s, PredVals), t \in Arrays(s, TrueVals) :
              heap = <<p, t>>
       \/ \E v \in -MaxPred..MaxPred, t \in EdgeTrueVals :
              heap = << <<<<v>>>>, <<<<t>>>> >>
    /\ InitCommon

CallBring ==
    LET r == _bring_preds_within_range(heap, y_pred)
    IN  /\ heap' = Live(r.heap)
        /\ ret' = r.heap[r.ref]
        /\ call' = [fn |-> "_bring_preds_within_range"]
        /\ UNCHANGED <<y_pred, y_true, self_seed>>

CallCircError ==
    LET r == circ_error(heap, y_pred, y_true)
    IN  /\ heap' = Live(r.heap)
        /\ ret' = r.heap[r.ref]
        /\ call' = [fn |-> "circ_error"]
        /\ UNCHANGED <<y_pred, y_true, self_seed>>

CallMse ==
    \E cc \in BOOLEAN :
        LET r == mse(heap, y_pred, y_true, cc)
        IN  /\ heap' = Live(r.heap)
            /\ ret' = r.val
            /\ call' = [fn |-> "mse", circ_correction |-> cc]
            /\ UNCHANGED <<y_pred, y_true, self_seed>>

CallMae ==
    \E cc \in BOOLEAN :
        LET r == mae(heap, y_pred, y_true, cc)
        IN  /\ heap' = Live(r.heap)
            /\ ret' = r.val
            /\ call' = [fn |-> "mae", circ_correction |-> cc]
            /\ UNCHANGED <<y_pred, y_true, self_seed>>

Next == CallBring \/ CallCircError \/ CallMse \/ CallMae

Spec == Init /\ [][Next]_vars

----------------------------------------------------------------------------
(* src/losses.py *)

(* A tensor of the losses is a batch of scalars, each a whole number of    *)
(* sixths: -3 .. 3 are the values -0.5 .. +0.5 of the code's comment.  A   *)
(* result is the exact number (q / 4 + e * 1e-10) / n, held as the record  *)
(* [q, e, n] in lowest terms; 1e-10 is smaller than any quarter.           *)

\* 2 * cos(pi * d / 6) where it is rational: d even or a multiple of 3
TwoCos(d) ==
    LET m == d % 12
    IN  CASE m = 0 -> 2
          [] m \in {2, 10} -> 1
          [] m \in {3, 9} -> 0
          [] m \in {4, 8} -> -1
          [] m = 6 -> -2

ExactCos(d) == d % 2 = 0 \/ d % 3 = 0

\* 0.5 * (1 - cos(pi * diff)), as the number q / 4
HalfOneMinusCos(d) == [q |-> 2 - TwoCos(d), e |-> 0]

\* the floor 1e-10
Epsilon == [q |-> 0, e |-> 1]

\* x < y for numbers q / 4 + e * 1e-10
NumLess(x, y) == x.q < y.q \/ (x.q = y.q /\ x.e < y.e)

\* tf.math.maximum(x, y)
Maximum(x, y) == IF NumLess(x, y) THEN y ELSE x

\* tf.math.abs(x)
NumAbs(x) == IF NumLess(x, [q |-> 0, e |-> 0]) THEN [q |-> -x.q, e |-> -x.e] ELSE x

\* tf.reduce_mean of a batch of numbers
ReduceMean(xs) ==
    LET sq == SumSeq([i \in DOMAIN xs |-> xs[i].q])
        se == SumSeq([i \in DOMAIN xs |-> xs[i].e])
        g  == GCD(GCD(Abs(sq), Abs(se)), Len(xs))
    IN  [q |-> sq \div g, e |-> se \div g, n |-> Len(xs) \div g]

\* CircularLoss.call(y_true, y_pred)
CircularLossCall(yt, yp) ==
    LET diff == [i \in DOMAIN yp |-> yp[i] - yt[i]]
    IN  ReduceMean([i \in DOMAIN diff |->
                      NumAbs(Maximum(HalfOneMinusCos(diff[i]), Epsilon))])

\* MSE.call(y_true, y_pred): the mean of abs(diff) ** 2, diff in sixths
MSECall(yt, yp) ==
    LET diff == [i \in DOMAIN yp |-> yp[i] - yt[i]]
    IN  Frac(SumSeq([i \in DOMAIN diff |-> Abs(diff[i]) * Abs(diff[i])]),
             36 * Len(diff))

\* largest batch of the losses
MaxBatch == 2

\* -0.5 .. +0.5 in sixths
LossVals == -3..3

\* the caller's two tensors, every difference one whose cosine is rational
InitLoss ==
    /\ \E n \in 1..MaxBatch : \E p \in [1..n -> LossVals], t \in [1..n -> LossVals] :
          /\ \A i \in 1..n : ExactCos(p[i] - t[i])
          /\ heap = <<p, t>>
    /\ InitCommon

CallCircularLoss ==
    /\ ret' = CircularLossCall(heap[y_true], heap[y_pred])
    /\ call' = [fn |-> "CircularLoss.call"]
    /\ UNCHANGED <<heap, y_pred, y_true, self_seed>>

CallMSELoss ==
    /\ ret' = MSECall(heap[y_true], heap[y_pred])
    /\ call' = [fn |-> "MSE.call"]
    /\ UNCHANGED <<heap, y_pred, y_true, self_seed>>

NextLoss == CallCircularLoss \/ CallMSELoss

SpecLoss == InitLoss /\ [][NextLoss]_vars

----------------------------------------------------------------------------
(* src/weight_initializers.py *)

(* A weight is held as a whole number of halves of edge: tf.random.uniform *)
(* draws from [-edge, edge), so a sample is one of -2 .. 1.  Which sample  *)
(* a seed gives is TensorFlow's business, not this code's: the draw is any *)
(* array of samples.                                                       *)

\* longest shape
MaxRank == 3
\* largest dimension of a shape
MaxDim == 3
\* largest number of weights of a shape
MaxWts == 4

RECURSIVE Prod(_)
Prod(s) == IF s = << >> THEN 1 ELSE Head(s) * Prod(Tail(s))

SampleVals == {-2, -1, 0, 1}

\* tf.random.uniform(shape, minval=-edge, maxval=edge, seed): every array
\* of that many samples
RandomUniform(shape, seed) == [1..Prod(shape) -> SampleVals]

\* the mutant of GlorotWeights that forgets tf.math.abs
GlorotWeightsNoAbs(u) == u

\* wts = tf.math.abs(tf.random.uniform(...))
GlorotWeights(u) == [i \in DOMAIN u |-> Abs(u[i])]

\* GlorotUniformNonNegative.__call__(shape): the arrays it may return, or
\* the exception it raises
GlorotCall(shape, seed) ==
    IF Len(shape) < 2 THEN {[ok |-> FALSE, raised |-> "IndexError"]}
    ELSE LET fan_in  == shape[Len(shape) - 1]
             fan_out == shape[Len(shape)]
         IN  IF fan_in + fan_out = 0
             THEN {[ok |-> FALSE, raised |-> "ZeroDivisionError"]}
             ELSE {[ok |-> TRUE, shape |-> shape,
                    edge2 |-> Frac(6, fan_in + fan_out),
                    wts |-> GlorotWeights(u)] : u \in RandomUniform(shape, seed)}

InitShapes ==
    {s \in UNION {[1..r -> 0..MaxDim] : r \in 1..MaxRank} : Prod(s) <= MaxWts}

Seeds == {NoSeed, <<0>>, <<7>>}

\* GlorotUniformNonNegative(seed)
InitGlorot ==
    /\ heap = << >>
    /\ y_pred = 1
    /\ y_true = 2
    /\ call = [fn |-> "none"]
    /\ ret = "none"
    /\ self_seed \in Seeds

CallGlorot ==
    \E shape \in InitShapes : \E r \in GlorotCall(shape, self_seed) :
        /\ ret' = r
        /\ call' = [fn |-> "GlorotUniformNonNegative.__call__", shape |-> shape]
        /\ UNCHANGED <<heap, y_pred, y_true, self_seed>>

NextGlorot == CallGlorot

SpecGlorot == InitGlorot /\ [][NextGlorot]_vars

----------------------------------------------------------------------------
(* Properties of the metrics, checked under Spec *)

P == heap[y_pred]
T == heap[y_true]

Cells(a) == (1..NRows(a)) \X (1..NCols(a))

InRange(v) == -HalfTurn <= v /\ v <= HalfTurn

AllInRange(a) == \A c \in Cells(a) : InRange(a[c[1]][c[2]])

\* the sum over the rows of column j of f applied to y_pred - y_true
ColumnSum(j, f(_)) ==
    LET acc[i \in 0..NRows(P)] ==
            IF i = 0 THEN 0 ELSE acc[i - 1] + f(P[i][j] - T[i][j])
    IN  acc[NRows(P)]

Square(x) == x * x

\* the mirror at the nearer end of [-180, 180]
Mirror(v) ==
    IF v > HalfTurn THEN HalfTurn + (HalfTurn - v)
    ELSE IF v < -HalfTurn THEN -HalfTurn + (-HalfTurn - v)
    ELSE v

\* C1: for y_pred and y_true in [-180, 180], circ_error returns the signed
\* shorter-path difference: each element is congruent to y_pred - y_true
\* modulo 360, and circ_error(170, -170) is -20.
C1_CircErrorSignedShorterPath ==
    call.fn = "circ_error" =>
        \A c \in Cells(P) :
            LET p == P[c[1]][c[2]]
                t == T[c[1]][c[2]]
                r == ret[c[1]][c[2]]
            IN  (InRange(p) /\ InRange(t)) =>
                    /\ (r - (p - t)) % FullTurn = 0
                    /\ (p = 170 /\ t = -170) => r = -20

\* C2: for any y_pred, however far out of range, and y_true in
\* [-180, 180], every element circ_error returns lies in [-180, 180].
C2_CircErrorWithinRange ==
    call.fn = "circ_error" =>
        \A c \in Cells(P) :
            InRange(T[c[1]][c[2]]) => InRange(ret[c[1]][c[2]])

\* C3 as stated: _bring_preds_within_range equals the mirror element by
\* element, for every value.
C3_BringIsMirror ==
    call.fn = "_bring_preds_within_range" =>
        \A c \in Cells(P) : ret[c[1]][c[2]] = Mirror(P[c[1]][c[2]])

\* C3 as amended: _bring_preds_within_range equals the mirror for every
\* value up to 540 (unchanged in [-180, 180], 360 - v above 180, -360 - v
\* below -180); a value v above 540 becomes v - 720, the second mask
\* reflecting the result of the first once more.
C3_BringIsMirrorUpTo540 ==
    call.fn = "_bring_preds_within_range" =>
        \A c \in Cells(P) :
            LET v == P[c[1]][c[2]]
            IN  ret[c[1]][c[2]] =
                    IF v > 3 * HalfTurn THEN v - 2 * FullTurn ELSE Mirror(v)

\* C3 witness: the call has reflected 190 to 170 in a one-element array
\* (and, in another state, 600 to -120)
C3_Witness ==
    /\ call.fn = "_bring_preds_within_range"
    /\ P = << <<190>> >>
    /\ ret = << <<170>> >>

\* C4: with circ_correction=False, mse is the mean of the squared and mae
\* the mean of the absolute element-wise differences y_pred - y_true, taken
\* along the leading axis only: N rows of F features give F values, and
\* mse([1,3],[0,0]) = 5.
C4_PlainMeansPerFeature ==
    /\ (call.fn = "mse" /\ ~call.circ_correction) =>
          /\ Len(ret) = NCols(P)
          /\ \A j \in 1..NCols(P) :
                ret[j].num * NRows(P) = ret[j].den * ColumnSum(j, Square)
          /\ (P = << <<1>>, <<3>> >> /\ T = << <<0>>, <<0>> >>) =>
                (ret[1].num = 5 /\ ret[1].den = 1)
    /\ (call.fn = "mae" /\ ~call.circ_correction) =>
          /\ Len(ret) = NCols(P)
          /\ \A j \in 1..NCols(P) :
                ret[j].num * NRows(P) = ret[j].den * ColumnSum(j, Abs)

\* C4 witness: mse([1,3],[0,0]) has returned 5
C4_Witness ==
    /\ call.fn = "mse"
    /\ ~call.circ_correction
    /\ P = << <<1>>, <<3>> >>
    /\ T = << <<0>>, <<0>> >>
    /\ ret = << [num |-> 5, den |-> 1] >>

\* C8: the metrics are pure: no call of circ_error, mse or mae (or of the
\* reflection step) changes the caller's y_pred or y_true array.
C8_CallerArraysUnchanged ==
    [][/\ y_pred' = y_pred
       /\ y_true' = y_true
       /\ heap'[y_pred] = heap[y_pred]
       /\ heap'[y_true] = heap[y_true]]_vars

\* C8 witness: mse with circ_correction has returned for a prediction of
\* 190 against -180: the copy was reflected to 170 and the difference 350
\* overwritten in place by 10, and the caller's arrays still hold 190, -180
C8_Witness ==
    /\ call.fn = "mse"
    /\ call.circ_correction
    /\ P = << <<190>> >>
    /\ T = << <<-180>> >>
    /\ ret = << [num |-> 100, den |-> 1] >>

\* the differences y_pred - y_true all lie in [-180, 180]
AllDiffInRange == \A c \in Cells(P) : InRange(P[c[1]][c[2]] - T[c[1]][c[2]])

\* C9: when every y_pred and every difference y_pred - y_true lies in
\* [-180, 180], mse and mae with circ_correction=True return what they
\* return with circ_correction=False.
C9_CircularPathNoOp ==
    /\ (call.fn = "mse" /\ call.circ_correction /\ AllInRange(P) /\ AllDiffInRange) =>
          ret = mse(heap, y_pred, y_true, FALSE).val
    /\ (call.fn = "mae" /\ call.circ_correction /\ AllInRange(P) /\ AllDiffInRange) =>
          ret = mae(heap, y_pred, y_true, FALSE).val

\* C9 witness: mse with circ_correction has returned for a 2 x 2 batch of
\* in-range predictions with in-range differences
C9_Witness ==
    /\ call.fn = "mse"
    /\ call.circ_correction
    /\ P = << <<170, 1>>, <<3, 170>> >>
    /\ T = << <<0, 0>>, <<-170, 0>> >>
    /\ AllInRange(P) /\ AllDiffInRange

\* C10: for y_pred and y_true in [-180, 180] the circular correction never
\* enlarges an error: |circ_error| <= |y_pred - y_true| element by element,
\* and mae with circ_correction=True is at most mae with
\* circ_correction=False.
C10_CorrectionNeverEnlarges ==
    /\ (call.fn = "circ_error" /\ AllInRange(P) /\ AllInRange(T)) =>
          \A c \in Cells(P) :
              Abs(ret[c[1]][c[2]]) <= Abs(P[c[1]][c[2]] - T[c[1]][c[2]])
    /\ (call.fn = "mae" /\ call.circ_correction /\ AllInRange(P) /\ AllInRange(T)) =>
          \A j \in 1..NCols(P) :
              FracLeq(ret[j], mae(heap, y_pred, y_true, FALSE).val[j])

\* C10 witness: mae with circ_correction has returned 95 / 2 for the batch
\* [170, 170] against [-170, 0], whose plain mae is 255: the error 340 was
\* wrapped to 20
C10_Witness ==
    /\ call.fn = "mae"
    /\ call.circ_correction
    /\ P = << <<170>>, <<170>> >>
    /\ T = << <<-170>>, <<0>> >>
    /\ ret = << [num |-> 95, den |-> 1] >>

----------------------------------------------------------------------------
(* Properties of the losses, checked under SpecLoss *)

\* C7: CircularLoss.call is the batch mean of
\* max(0.5 * (1 - cos(pi * (y_pred - y_true))), 1e-10), so that
\* loss(true=0, pred=0) is the floor 1e-10 and loss(true=0, pred=0.5) is 1.
C7_CircularLossValues ==
    call.fn = "CircularLoss.call" =>
        /\ ret = ReduceMean([i \in DOMAIN P |->
                     Maximum(HalfOneMinusCos(P[i] - T[i]), Epsilon)])
        /\ (P = <<0>> /\ T = <<0>>) => ret = [q |-> 0, e |-> 1, n |-> 1]
        /\ (P = <<3>> /\ T = <<0>>) => ret = [q |-> 4, e |-> 0, n |-> 1]

----------------------------------------------------------------------------
(* Properties of the initializer, checked under SpecGlorot *)

\* the result is an array of the shape asked for, every weight in
\* [0, edge] (0 .. 2 halves of edge), edge * edge = 6 / (fan_in + fan_out)
GlorotResultOk ==
    LET shape == call.shape
    IN  /\ ret.ok
        /\ ret.shape = shape
        /\ Len(ret.wts) = Prod(shape)
        /\ \A i \in DOMAIN ret.wts : 0 <= ret.wts[i] /\ ret.wts[i] <= 2
        /\ Len(shape) >= 2
        /\ ret.edge2.num * (shape[Len(shape) - 1] + shape[Len(shape)])
              = 6 * ret.edge2.den

\* C5 as stated: for any shape and any seed the call returns an array of
\* that shape with every element >= 0 and at most edge.
C5_AnyShapeNonNegative ==
    call.fn = "GlorotUniformNonNegative.__call__" => GlorotResultOk

\* C5 as amended: for any shape of at least two dimensions whose last two
\* are not both 0, and any seed, the call returns an array of that shape
\* with every element >= 0 and at most edge; a shape of one dimension
\* raises IndexError and fan_in + fan_out = 0 raises ZeroDivisionError.
C5_RankTwoShapeNonNegative ==
    call.fn = "GlorotUniformNonNegative.__call__" =>
        LET shape == call.shape
        IN  IF Len(shape) < 2
            THEN ret = [ok |-> FALSE, raised |-> "IndexError"]
            ELSE IF shape[Len(shape) - 1] + shape[Len(shape)] = 0
            THEN ret = [ok |-> FALSE, raised |-> "ZeroDivisionError"]
            ELSE GlorotResultOk

\* C5 witness: a seeded initializer has returned two weights, edge and half
\* of it, for the shape (2, 1, 1), whose fans are the last two dimensions
C5_Witness ==
    /\ call.fn = "GlorotUniformNonNegative.__call__"
    /\ self_seed = <<7>>
    /\ call.shape = <<2, 1, 1>>
    /\ ret.ok
    /\ ret.wts = <<2, 1>>
    /\ ret.edge2 = [num |-> 3, den |-> 1]

====
